---- MODULE Spec2Model ----
(***************************************************************************)
(* A state-machine model of the request handlers of app/api/views.py:      *)
(* the statistics endpoint, the annotation endpoints with the single-class *)
(* guard, the document import endpoints and the label endpoints.           *)
(*                                                                         *)
(* The database tables are the variables documents, annotations and        *)
(* labels.  Each handler is one action; a handler that the HTTP layer may  *)
(* interleave with another request between its database reads and writes   *)
(* is split at those points in the interleaved specifications.             *)
(***************************************************************************)
EXTENDS Integers, FiniteSets, Sequences, TLC

\* ------------------------------------------------------------------ bounds
MaxDocs == 1        \* documents created by requests: ids 1..MaxDocs
MaxAnn == 2         \* annotations created by requests: ids 1..MaxAnn
NLabels == 1        \* label ids an annotation may reference are 1..NLabels
MaxStatDocs == 3    \* documents of a table a statistics request is sent to
MaxBatch == 2       \* records of an imported file
MaxFile == 2        \* labels of an uploaded label file

\* ------------------------------------------------------------ the universe
Projects == {"p1", "p2"}
Users == {"A", "B"}
DocIds == 1..MaxDocs
AnnIds == 1..MaxAnn
LabelIds == 1..NLabels

\* Role mappings: the members of each project.  B is no member of p2.
Members == [p \in Projects |-> IF p = "p1" THEN {"A", "B"} ELSE {"A"}]

\* IsInProjectReadOnlyOrAdmin / IsInProjectOrAdmin: the requesting user has a
\* role in the project named by the URL's project_id.
IsInProject(user, project_id) == user \in Members[project_id]

\* IsOwnAnnotation: the annotation named by the URL belongs to the requester.
IsOwnAnnotation(user, annotation) == annotation.user = user

VARIABLES
    collab,         \* collab[p]: Project.collaborative_annotation
    single,         \* single[p]: Project.single_class_classification
    documents,      \* the Document table: records [id, project]
    annotations,    \* the annotation table: records [id, document, user, label]
    nextId,         \* the next annotation primary key
    request,        \* the statistics request received and not yet handled
    creates,        \* the annotation-create requests being handled, by worker
    upload,         \* the document import being handled
    labels,         \* the Label table: records [project, name, shortkey]
    labelTx,        \* the label uploads being handled, by worker
    response        \* the last request handled and the response it was given

vars == <<collab, single, documents, annotations, nextId, request, creates,
          upload, labels, labelTx, response>>

flags == <<collab, single>>

\* The request-serving workers of the HTTP layer.
Workers == {"w1", "w2"}
Idle == [pc |-> "idle"]

NoResponse == [op |-> "none"]
NoRequest == [op |-> "none"]

\* project.documents
ProjectDocs(project) == {d \in documents : d.project = project}
DocIdsOf(project) == {d.id : d \in ProjectDocs(project)}

\* ------------------------------------------------------------- statistics
StatKeys == {"label", "user_label", "total", "remaining", "user"}

EmptyDict == [k \in {} |-> 0]

\* dict.update
Update(f, g) == [k \in (DOMAIN f) \cup (DOMAIN g) |-> IF k \in DOMAIN g THEN g[k] ELSE f[k]]

\* StatisticsAPI._get_user_completion_data: per username, the set of document
\* ids of the filtered annotations, then its size.
GetUserCompletionData(filtered) ==
    LET names == {a.user : a \in filtered}
        set_user_data == [u \in names |-> {a.document : a \in {b \in filtered : b.user = u}}]
    IN  [u \in names |-> Cardinality(set_user_data[u])]

\* The bug of narrowing the filter to the requester before the per-user tally.
ProgressFilterFirst(project, user) ==
    LET docs == DocIdsOf(project)
        total == Cardinality(docs)
        all == {a \in annotations : a.document \in docs}
        filtered == IF ~collab[project] THEN {a \in all : a.user = user} ELSE all
        user_data == GetUserCompletionData(filtered)
        done == Cardinality({a.document : a \in filtered})
    IN  [total |-> total, remaining |-> total - done, user |-> user_data]

\* The bug of counting every user's annotations in a private project.
ProgressNoUserFilter(project, user) ==
    LET docs == DocIdsOf(project)
        total == Cardinality(docs)
        all == {a \in annotations : a.document \in docs}
        user_data == GetUserCompletionData(all)
        done == Cardinality({a.document : a \in all})
    IN  [total |-> total, remaining |-> total - done, user |-> user_data]

\* StatisticsAPI.progress
Progress(project, user) ==
    LET docs == DocIdsOf(project)
        total == Cardinality(docs)
        all == {a \in annotations : a.document \in docs}
        user_data == GetUserCompletionData(all)
        filtered == IF ~collab[project] THEN {a \in all : a.user = user} ELSE all
        done == Cardinality({a.document : a \in filtered})
    IN  [total |-> total, remaining |-> total - done, user |-> user_data]

\* StatisticsAPI.label_per_data: the manager's get_label_per_data, a count of
\* annotation rows per label and per (user, label) over the whole project.
LabelPerData(project) ==
    LET all == {a \in annotations : a.document \in DocIdsOf(project)}
        used == {a.label : a \in all}
        pairs == {<<a.user, a.label>> : a \in all}
    IN  <<[l \in used |-> Cardinality({a \in all : a.label = l})],
          [ul \in pairs |-> Cardinality({a \in all : a.user = ul[1] /\ a.label = ul[2]})]>>

\* StatisticsAPI.get, up to the Response: the dict, and whether each of the two
\* computations was run.
StatisticsBody(project, user, include) ==
    LET runLabel == include = {} \/ "label" \in include
        runProgress == include = {} \/ "total" \in include
                          \/ "remaining" \in include \/ "user" \in include
        r1 == IF runLabel
              THEN [k \in {"label", "user_label"} |->
                       IF k = "label" THEN LabelPerData(project)[1]
                                      ELSE LabelPerData(project)[2]]
              ELSE EmptyDict
        r2 == IF runProgress THEN Update(r1, Progress(project, user)) ELSE r1
        r3 == IF include # {} THEN [k \in (DOMAIN r2) \cap include |-> r2[k]] ELSE r2
    IN  [body |-> r3, labelRan |-> runLabel, progressRan |-> runProgress]

\* GET /projects/<project_id>/statistics?include=... : the handler of the
\* request received.
StatisticsGet ==
    /\ request.op = "statistics"
    /\ IsInProject(request.user, request.project)
    /\ response' = [op |-> "statistics", project |-> request.project,
                    user |-> request.user, include |-> request.include, status |-> 200]
                   @@ StatisticsBody(request.project, request.user, request.include)
    /\ request' = NoRequest
    /\ UNCHANGED <<upload, labels, labelTx, flags, documents, annotations, nextId, creates>>

\* ------------------------------------------------------------- documents
\* DocumentList.perform_create: a new document of the URL's project.
DocumentCreate(project, user) ==
    /\ IsInProject(user, project)
    /\ Cardinality(documents) < MaxDocs
    /\ documents' = documents \cup {[id |-> Cardinality(documents) + 1, project |-> project]}
    /\ response' = [op |-> "document", project |-> project, user |-> user, status |-> 201]
    /\ UNCHANGED <<upload, labels, labelTx, flags, annotations, nextId, request, creates>>

\* ------------------------------------------------------------ annotations
\* The bug of a guard that never narrows the scope to the user.
GuardScopeAllUsers(project_id, doc_id, user) ==
    {a \in annotations : a.document = doc_id}

\* The queryset of check_single_class_classification: the annotations of the
\* document, narrowed to the user in a non-collaborative project.  The project
\* is the one the URL names; the document is looked up by doc_id alone.
GuardScope(project_id, doc_id, user) ==
    LET onDoc == {a \in annotations : a.document = doc_id}
    IN  IF ~collab[project_id] THEN {a \in onDoc : a.user = user} ELSE onDoc

\* AnnotationList.check_single_class_classification: TRUE when it raises.
GuardRaises(project_id, doc_id, user) ==
    IF ~single[project_id] THEN FALSE
    ELSE GuardScope(project_id, doc_id, user) # {}

\* AnnotationList.perform_create: serializer.save(document_id, user).
Insert(doc_id, user, label) ==
    /\ annotations' = annotations \cup
           {[id |-> nextId, document |-> doc_id, user |-> user, label |-> label]}
    /\ nextId' = nextId + 1

\* POST /projects/<project_id>/docs/<doc_id>/annotations, run without
\* interleaving: the guard, then the insert.
Create(project_id, doc_id, user, label) ==
    /\ IsInProject(user, project_id)
    /\ doc_id \in {d.id : d \in documents}
    /\ GuardRaises(project_id, doc_id, user) \/ nextId <= MaxAnn
    /\ IF GuardRaises(project_id, doc_id, user)
       THEN /\ response' = [op |-> "create", project |-> project_id, doc |-> doc_id,
                            user |-> user, status |-> 400]
            /\ UNCHANGED <<annotations, nextId>>
       ELSE /\ Insert(doc_id, user, label)
            /\ response' = [op |-> "create", project |-> project_id, doc |-> doc_id,
                            user |-> user, status |-> 201]
    /\ UNCHANGED <<upload, labels, labelTx, flags, documents, request, creates>>

\* The same request handled by a worker that other workers interleave with:
\* first AnnotationList.create up to the guard ...
CreateCheck(w, project_id, doc_id, user) ==
    /\ creates[w].pc = "idle"
    /\ IsInProject(user, project_id)
    /\ doc_id \in {d.id : d \in documents}
    /\ IF GuardRaises(project_id, doc_id, user)
       THEN /\ response' = [op |-> "create", project |-> project_id, doc |-> doc_id,
                            user |-> user, status |-> 400]
            /\ UNCHANGED creates
       ELSE /\ creates' = [creates EXCEPT ![w] =
                   [pc |-> "checked", project |-> project_id, doc |-> doc_id,
                    user |-> user]]
            /\ UNCHANGED response
    /\ UNCHANGED <<upload, labels, labelTx, flags, documents, annotations, nextId, request>>

\* The bug-free variant: the insert looks at the scope again, as a transaction
\* or a uniqueness constraint on the scope would.
PerformCreateRechecked(w, label) ==
    /\ creates[w].pc = "checked"
    /\ nextId <= MaxAnn
    /\ LET r == creates[w]
       IN  IF GuardRaises(r.project, r.doc, r.user)
           THEN /\ creates' = [creates EXCEPT ![w] = Idle]
                /\ response' = [op |-> "create", project |-> r.project, doc |-> r.doc,
                                user |-> r.user, status |-> 400]
                /\ UNCHANGED <<annotations, nextId>>
           ELSE /\ Insert(r.doc, r.user, label)
                /\ creates' = [creates EXCEPT ![w] = Idle]
                /\ response' = [op |-> "create", project |-> r.project, doc |-> r.doc,
                                user |-> r.user, status |-> 201]
    /\ UNCHANGED <<upload, labels, labelTx, flags, documents, request>>

\* ... then super().create: the serializer reads request.data, perform_create
\* saves the row and the response is 201.  Nothing looks at the scope again.
PerformCreate(w, label) ==
    /\ creates[w].pc = "checked"
    /\ nextId <= MaxAnn
    /\ LET r == creates[w]
       IN  /\ Insert(r.doc, r.user, label)
           /\ creates' = [creates EXCEPT ![w] = Idle]
           /\ response' = [op |-> "create", project |-> r.project, doc |-> r.doc,
                           user |-> r.user, status |-> 201]
    /\ UNCHANGED <<upload, labels, labelTx, flags, documents, request>>

\* The row the URL's annotation_id names, looked up in model.objects.all():
\* every annotation of the class, whatever its document's project.
GetObject(annotation_id) == {a \in annotations : a.id = annotation_id}

\* AnnotationDetail.get_permissions, evaluated for a request: the permission
\* classes are chosen by the flag of the project the URL names.
DetailPermitted(project_id, annotation_id, user) ==
    IF collab[project_id]
    THEN IsInProject(user, project_id)
    ELSE /\ IsInProject(user, project_id)
         /\ \E a \in GetObject(annotation_id) : IsOwnAnnotation(user, a)

DetailResponse(op, project_id, annotation_id, user, status) ==
    [op |-> op, project |-> project_id, annotation |-> annotation_id,
     user |-> user, status |-> status]

\* DELETE /projects/<project_id>/docs/<doc_id>/annotations/<annotation_id>
Destroy(project_id, annotation_id, user) ==
    /\ DetailPermitted(project_id, annotation_id, user)
    /\ GetObject(annotation_id) # {}
    /\ annotations' = annotations \ GetObject(annotation_id)
    /\ response' = DetailResponse("destroy", project_id, annotation_id, user, 204)
    /\ UNCHANGED <<upload, labels, labelTx, flags, documents, nextId, request, creates>>

\* PUT/PATCH /projects/<project_id>/docs/<doc_id>/annotations/<annotation_id>
UpdateAnnotation(project_id, annotation_id, user, label) ==
    /\ DetailPermitted(project_id, annotation_id, user)
    /\ GetObject(annotation_id) # {}
    /\ annotations' = {IF a.id = annotation_id THEN [a EXCEPT !.label = label] ELSE a :
                          a \in annotations}
    /\ response' = DetailResponse("update", project_id, annotation_id, user, 200)
    /\ UNCHANGED <<upload, labels, labelTx, flags, documents, nextId, request, creates>>

\* ---------------------------------------------------------------- import
Formats == {"plain", "csv", "json", "conll", "excel", "audio"}
FormatTokens == Formats \cup {"xml"}

\* A record of an imported file: a text, a text with a label, or a malformed row.
RecordKinds == {"text", "labelled", "bad"}
Batches == UNION {[1..n -> RecordKinds] : n \in 1..MaxBatch}

\* The project admins (IsProjectAdmin).
Admins == [p \in Projects |-> {"A"}]

\* select_parser: the parser of a format token, or the ValidationError.
SelectParser(file_format) ==
    IF file_format = "plain" THEN "PlainTextParser"
    ELSE IF file_format = "csv" THEN "CSVParser"
    ELSE IF file_format = "json" THEN "JSONParser"
    ELSE IF file_format = "conll" THEN "CoNLLParser"
    ELSE IF file_format = "excel" THEN "ExcelParser"
    ELSE IF file_format = "audio" THEN "AudioParser"
    ELSE "ValidationError"

\* The answer of a request that ended before storage.save ran ...
UploadResponse(api, file_format, error, reads) ==
    [op |-> "upload", api |-> api, format |-> file_format, status |-> 400,
     error |-> error, reads |-> reads]

\* ... and of one that ended in storage.save, after saved records.
ImportResponse(api, status, error, reads, saved) ==
    [op |-> "import", api |-> api, status |-> status,
     error |-> error, reads |-> reads, saved |-> saved]

\* save_file up to storage.save: the project, the parser of the format, the
\* lazy parse of the file.  reads counts the reads of the input made so far.
SaveFile(api, project_id, user, file_format, batch, reads) ==
    IF SelectParser(file_format) = "ValidationError"
    THEN /\ response' = UploadResponse(api, file_format, "format", reads)
         /\ UNCHANGED upload
    ELSE /\ upload' = [pc |-> "saving", api |-> api, project |-> project_id,
                       user |-> user, batch |-> batch,
                       pos |-> 0, reads |-> reads]
         /\ UNCHANGED response

\* TextUploadAPI.post
TextUploadPost(project_id, user, has_file, file_format, batch) ==
    /\ upload.pc = "idle"
    /\ user \in Admins[project_id]
    /\ IF ~has_file
       THEN /\ response' = UploadResponse("text", file_format, "missing", 0)
            /\ UNCHANGED upload
       ELSE SaveFile("text", project_id, user, file_format, batch, 0)
    /\ UNCHANGED <<flags, documents, annotations, nextId, request, creates, labels, labelTx>>

\* GCPUploadAPI.post: the bucket and file parameters, the download of the blob
\* to a temporary file (one read of the remote input), then save_file.
GCPUploadPost(project_id, user, has_params, file_format, batch) ==
    /\ upload.pc = "idle"
    /\ user \in Admins[project_id]
    /\ IF ~has_params
       THEN /\ response' = UploadResponse("gcp", file_format, "missing", 0)
            /\ UNCHANGED upload
       ELSE SaveFile("gcp", project_id, user, file_format, batch, 1)
    /\ UNCHANGED <<flags, documents, annotations, nextId, request, creates, labels, labelTx>>

\* The rows a batch adds: one document per record, one annotation by the
\* importing user per labelled record.
BatchDocs(project_id, batch) ==
    {[id |-> Cardinality(documents) + i, project |-> project_id] : i \in 1..Len(batch)}
BatchAnnotations(user, batch) ==
    LET labelled == {i \in 1..Len(batch) : batch[i] = "labelled"}
    IN  {[id |-> nextId + Cardinality({j \in labelled : j < i}),
          document |-> Cardinality(documents) + i, user |-> user, label |-> 1] :
            i \in labelled}

\* The bug of a storage that saves each record outside a transaction.
SaveRecordAutocommit ==
    /\ upload.pc = "saving"
    /\ upload.pos < Len(upload.batch)
    /\ IF upload.batch[upload.pos + 1] = "bad"
       THEN /\ upload' = [pc |-> "idle"]
            /\ response' = ImportResponse(upload.api, 400, "parse",
                                          upload.reads + 1, upload.pos)
            /\ UNCHANGED documents
       ELSE /\ upload' = [upload EXCEPT !.pos = @ + 1, !.reads = @ + 1]
            /\ documents' = documents \cup
                   {[id |-> Cardinality(documents) + 1, project |-> upload.project]}
            /\ UNCHANGED response
    /\ UNCHANGED <<flags, annotations, nextId, request, creates, labels, labelTx>>

\* storage.save, one turn of its loop inside the transaction: the next record
\* is read from the lazy parse; a malformed one raises and the transaction is
\* rolled back, another one is saved in the transaction.
SaveRecord ==
    /\ upload.pc = "saving"
    /\ upload.pos < Len(upload.batch)
    /\ IF upload.batch[upload.pos + 1] = "bad"
       THEN /\ upload' = [pc |-> "idle"]
            /\ response' = ImportResponse(upload.api, 400, "parse",
                                          upload.reads + 1, upload.pos)
       ELSE /\ upload' = [upload EXCEPT !.pos = @ + 1, !.reads = @ + 1]
            /\ UNCHANGED response
    /\ UNCHANGED <<flags, documents, annotations, nextId, request, creates, labels, labelTx>>

\* storage.save, the end of the loop: the transaction commits and the response
\* is 201.
SaveCommit ==
    /\ upload.pc = "saving"
    /\ upload.pos = Len(upload.batch)
    /\ Cardinality(documents) + Len(upload.batch) <= MaxDocs
    /\ nextId + Cardinality(BatchAnnotations(upload.user, upload.batch)) <= MaxAnn + 1
    /\ documents' = documents \cup BatchDocs(upload.project, upload.batch)
    /\ annotations' = annotations \cup BatchAnnotations(upload.user, upload.batch)
    /\ nextId' = nextId + Cardinality(BatchAnnotations(upload.user, upload.batch))
    /\ upload' = [pc |-> "idle"]
    /\ response' = ImportResponse(upload.api, 201, "none",
                                  upload.reads, upload.pos)
    /\ UNCHANGED <<flags, request, creates, labels, labelTx>>

\* The request is aborted while storage.save runs: the transaction is rolled back.
ImportAbort ==
    /\ upload.pc = "saving"
    /\ upload' = [pc |-> "idle"]
    /\ response' = ImportResponse(upload.api, 500, "aborted",
                                  upload.reads, upload.pos)
    /\ UNCHANGED <<flags, documents, annotations, nextId, request, creates, labels, labelTx>>

\* ---------------------------------------------------------------- labels
LabelNames == {"x", "y"}
Shortkeys == {"a", "b"}
LabelData == [name : LabelNames, shortkey : Shortkeys]

LabelRow(project_id, label) ==
    [project |-> project_id, name |-> label.name, shortkey |-> label.shortkey]

\* The bug of a table that is unique by (project, name) only.
UniqueViolationNameOnly(row, rows) ==
    \E r \in rows : r.project = row.project /\ r.name = row.name

\* The uniqueness constraints of the Label table, (project, name) and
\* (project, shortkey): TRUE when inserting the row raises IntegrityError.
UniqueViolation(row, rows) ==
    \E r \in rows : r.project = row.project /\ (r.name = row.name \/ r.shortkey = row.shortkey)

\* The rows other open transactions have inserted and not yet committed: an
\* insert that conflicts with one of them waits for that transaction to end.
StagedByOthers(w) ==
    UNION {labelTx[v].staged : v \in {v \in Workers : v # w /\ labelTx[v].pc = "uploading"}}
StagedByAll ==
    UNION {labelTx[v].staged : v \in {v \in Workers : labelTx[v].pc = "uploading"}}

LabelResponse(project_id, label, status, error) ==
    [op |-> "label", project |-> project_id, label |-> label, status |-> status,
     error |-> error]
LabelsResponse(project_id, status, error, saved) ==
    [op |-> "labels", project |-> project_id, status |-> status, error |-> error,
     saved |-> saved]

\* LabelList.perform_create: serializer.save(project=project), one INSERT in
\* its own transaction; an IntegrityError is not caught and ends the request
\* with a server error.
LabelCreate(project_id, user, label) ==
    LET row == LabelRow(project_id, label)
    IN  /\ user \in Admins[project_id]
        /\ ~UniqueViolation(row, StagedByAll)
        /\ IF UniqueViolation(row, labels)
           THEN /\ response' = LabelResponse(project_id, label, 500, "IntegrityError")
                /\ UNCHANGED labels
           ELSE /\ labels' = labels \cup {row}
                /\ response' = LabelResponse(project_id, label, 201, "none")
        /\ UNCHANGED <<flags, documents, annotations, nextId, request, creates, upload, labelTx>>

\* LabelUploadAPI.post, up to its loop: the file parameter, then the project;
\* the transaction of the atomic block is open.
LabelUploadBegin(w, project_id, user, has_file) ==
    /\ labelTx[w].pc = "idle"
    /\ user \in Admins[project_id]
    /\ IF ~has_file
       THEN /\ response' = LabelsResponse(project_id, 400, "ParseError", {})
            /\ UNCHANGED labelTx
       ELSE /\ labelTx' = [labelTx EXCEPT ![w] =
                   [pc |-> "uploading", project |-> project_id, staged |-> {}]]
            /\ UNCHANGED response
    /\ UNCHANGED <<flags, documents, annotations, nextId, request, creates, upload, labels>>

\* The loop of LabelUploadAPI.post as it would run without the atomic block:
\* every save is committed at once, and a failure keeps what was saved.
LabelUploadNextAutocommit(w, label, valid) ==
    LET tx == labelTx[w]
        row == LabelRow(tx.project, label)
    IN  /\ tx.pc = "uploading"
        /\ Cardinality(tx.staged) < MaxFile
        /\ IF ~valid
           THEN /\ labelTx' = [labelTx EXCEPT ![w] = Idle]
                /\ labels' = labels \cup tx.staged
                /\ response' = LabelsResponse(tx.project, 400, "ValidationError", tx.staged)
           ELSE /\ ~UniqueViolation(row, StagedByOthers(w))
                /\ IF UniqueViolation(row, labels \cup tx.staged)
                   THEN /\ labelTx' = [labelTx EXCEPT ![w] = Idle]
                        /\ labels' = labels \cup tx.staged
                        /\ response' = LabelsResponse(tx.project, 400, "IntegrityError",
                                                      tx.staged)
                   ELSE /\ labelTx' = [labelTx EXCEPT ![w].staged = @ \cup {row}]
                        /\ UNCHANGED <<response, labels>>
        /\ UNCHANGED <<flags, documents, annotations, nextId, request, creates, upload>>

\* LabelUploadAPI.post, one turn of its loop on the next label of the file:
\* is_valid raises ValidationError out of the atomic block, which rolls back;
\* save raises IntegrityError on a uniqueness violation, which marks the
\* transaction for rollback and is caught and answered 400; otherwise the row
\* is inserted in the transaction.
LabelUploadNext(w, label, valid) ==
    LET tx == labelTx[w]
        row == LabelRow(tx.project, label)
    IN  /\ tx.pc = "uploading"
        /\ Cardinality(tx.staged) < MaxFile
        /\ IF ~valid
           THEN /\ labelTx' = [labelTx EXCEPT ![w] = Idle]
                /\ response' = LabelsResponse(tx.project, 400, "ValidationError", tx.staged)
           ELSE /\ ~UniqueViolation(row, StagedByOthers(w))
                /\ IF UniqueViolation(row, labels \cup tx.staged)
                   THEN /\ labelTx' = [labelTx EXCEPT ![w] = Idle]
                        /\ response' = LabelsResponse(tx.project, 400, "IntegrityError",
                                                      tx.staged)
                   ELSE /\ labelTx' = [labelTx EXCEPT ![w].staged = @ \cup {row}]
                        /\ UNCHANGED response
        /\ UNCHANGED <<flags, documents, annotations, nextId, request, creates, upload, labels>>

\* LabelUploadAPI.post, the end of the loop: 201, and the atomic block commits.
LabelUploadCommit(w) ==
    LET tx == labelTx[w]
    IN  /\ tx.pc = "uploading"
        /\ labels' = labels \cup tx.staged
        /\ labelTx' = [labelTx EXCEPT ![w] = Idle]
        /\ response' = LabelsResponse(tx.project, 201, "none", tx.staged)
        /\ UNCHANGED <<flags, documents, annotations, nextId, request, creates, upload>>

\* The request is aborted, or the database ends a deadlock of two uploads by
\* failing one: the transaction is rolled back.
LabelUploadAbort(w) ==
    LET tx == labelTx[w]
    IN  /\ tx.pc = "uploading"
        /\ labelTx' = [labelTx EXCEPT ![w] = Idle]
        /\ response' = LabelsResponse(tx.project, 500, "aborted", tx.staged)
        /\ UNCHANGED <<flags, documents, annotations, nextId, request, creates, upload, labels>>

\* ------------------------------------------------------- initial states
Init ==
    /\ collab \in [Projects -> BOOLEAN]
    /\ single \in [Projects -> BOOLEAN]
    /\ documents = {}
    /\ annotations = {}
    /\ nextId = 1
    /\ request = NoRequest
    /\ creates = [w \in Workers |-> Idle]
    /\ upload = Idle
    /\ labels = {}
    /\ labelTx = [w \in Workers |-> Idle]
    /\ response = NoResponse

\* The tables a statistics request can meet, up to a renaming of the primary
\* keys, which the statistics only compare: the documents of p1 have the lower
\* ids, and the annotations are numbered in the order of their contents.
DocTables ==
    UNION {{{[id |-> i, project |-> IF i <= k THEN "p1" ELSE "p2"] : i \in 1..n} :
               k \in 0..n} : n \in 0..MaxStatDocs}
UserSeq == <<"A", "B">>
AnnOf(i, c) ==
    [id |-> i,
     document |-> ((c - 1) \div (Len(UserSeq) * NLabels)) + 1,
     user |-> UserSeq[(((c - 1) \div NLabels) % Len(UserSeq)) + 1],
     label |-> ((c - 1) % NLabels) + 1]
AnnTables(docs) ==
    LET contents == 1..(Cardinality(docs) * Len(UserSeq) * NLabels)
    IN  UNION {{{AnnOf(i, g[i]) : i \in 1..k} :
                   g \in {h \in [1..k -> contents] :
                             \A i \in 1..k : i < k => h[i] <= h[i + 1]}} :
                  k \in 0..MaxAnn}

\* request.GET.getlist('include'): every set of keys, and a choice of them.
IncludeSets == SUBSET StatKeys
IncludeChoices == {{}, {"total"}, {"remaining"}, {"user"}, {"label", "total", "remaining"}}
StatisticsRequests(includes) ==
    {[op |-> "statistics", project |-> p, user |-> u, include |-> inc] :
        p \in Projects, u \in Users, inc \in includes}

\* A statistics request arriving at a database in any state of at most
\* MaxStatDocs documents and MaxAnn annotations.  The statistics read neither
\* the single-class flag nor the requests in flight.
StatisticsArrives(includes) ==
    /\ collab \in [Projects -> BOOLEAN]
    /\ single = [p \in Projects |-> FALSE]
    /\ documents \in DocTables
    /\ annotations \in AnnTables(documents)
    /\ nextId = Cardinality(annotations) + 1
    /\ request \in StatisticsRequests(includes)
    /\ creates = [w \in Workers |-> Idle]
    /\ upload = Idle
    /\ labels = {}
    /\ labelTx = [w \in Workers |-> Idle]
    /\ response = NoResponse

InitStats == StatisticsArrives(IncludeChoices)
InitInclude == StatisticsArrives(IncludeSets)

NextStats == StatisticsGet

\* The import and label handlers read neither flag of the project.
InitPlain ==
    /\ Init
    /\ collab = [p \in Projects |-> FALSE]
    /\ single = [p \in Projects |-> FALSE]

SpecStats == InitStats /\ [][NextStats]_vars
SpecInclude == InitInclude /\ [][NextStats]_vars

\* Requests handled one at a time.
NextSerial ==
    \/ \E p \in Projects, u \in Users : DocumentCreate(p, u)
    \/ \E p \in Projects, d \in DocIds, u \in Users, l \in LabelIds : Create(p, d, u, l)
    \/ \E p \in Projects, a \in AnnIds, u \in Users : Destroy(p, a, u)
    \/ \E p \in Projects, a \in AnnIds, u \in Users, l \in LabelIds :
          UpdateAnnotation(p, a, u, l)

SpecSerial == Init /\ [][NextSerial]_vars

\* Documents created, and annotations created by workers that interleave.
Next ==
    \/ \E p \in Projects, u \in Users : DocumentCreate(p, u)
    \/ \E w \in Workers, p \in Projects, d \in DocIds, u \in Users :
          CreateCheck(w, p, d, u)
    \/ \E w \in Workers, l \in LabelIds : PerformCreate(w, l)

Spec == Init /\ [][Next]_vars

\* Document imports, one at a time.
NextImport ==
    \/ \E p \in Projects, u \in Users, f \in BOOLEAN, t \in FormatTokens, b \in Batches :
          TextUploadPost(p, u, f, t, b)
    \/ \E p \in Projects, u \in Users, f \in BOOLEAN, t \in FormatTokens, b \in Batches :
          GCPUploadPost(p, u, f, t, b)
    \/ SaveRecord
    \/ SaveCommit
    \/ ImportAbort

SpecImport == InitPlain /\ [][NextImport]_vars

\* Label creations and label uploads by workers that interleave.
NextLabels ==
    \/ \E p \in Projects, u \in Users, l \in LabelData : LabelCreate(p, u, l)
    \/ \E w \in Workers, p \in Projects, u \in Users, f \in BOOLEAN :
          LabelUploadBegin(w, p, u, f)
    \/ \E w \in Workers, l \in LabelData, v \in BOOLEAN : LabelUploadNext(w, l, v)
    \/ \E w \in Workers : LabelUploadCommit(w)
    \/ \E w \in Workers : LabelUploadAbort(w)

SpecLabels == InitPlain /\ [][NextLabels]_vars

\* ------------------------------------------------------------------ claims
\* The documents of a project on which an annotation counts as done for a user.
DoneDocs(project, user) ==
    {d \in ProjectDocs(project) :
        \E a \in annotations :
            /\ a.document = d.id
            /\ (collab[project] \/ a.user = user)}

\* C1: the statistics response carries total = the number of documents of the
\* project and remaining = total - done, done being the number of documents of
\* the project with at least one annotation that counts (any annotation in a
\* collaborative project, the requesting user's own otherwise).
C1_ProgressCounts ==
    response.op = "statistics" =>
        /\ "total" \in DOMAIN response.body =>
              response.body["total"] = Cardinality(ProjectDocs(response.project))
        /\ "remaining" \in DOMAIN response.body =>
              response.body["remaining"] =
                  Cardinality(ProjectDocs(response.project))
                  - Cardinality(DoneDocs(response.project, response.user))

\* A private project where another user's annotation is on a document the
\* requester has not annotated, and the requester has annotated another one.
C1_Witness ==
    /\ response.op = "statistics"
    /\ ~collab[response.project]
    /\ {"total", "remaining"} \subseteq DOMAIN response.body
    /\ DoneDocs(response.project, response.user) # {}
    /\ \E d \in ProjectDocs(response.project) \ DoneDocs(response.project, response.user) :
          \E a \in annotations : a.document = d.id /\ a.user # response.user

\* The users with an annotation on a document of the project.
Annotators(project) ==
    {u \in Users : \E a \in annotations : a.user = u /\ a.document \in DocIdsOf(project)}

\* C2: the per-user tally maps each user with an annotation in the project to
\* the number of documents of the project that user annotated, over all users'
\* annotations whatever the collaborative flag and the requester; a document
\* without annotations counts in total only.
C2_PerUserTally ==
    (response.op = "statistics" /\ "user" \in DOMAIN response.body) =>
        /\ DOMAIN response.body["user"] = Annotators(response.project)
        /\ \A u \in Annotators(response.project) :
              response.body["user"][u] =
                  Cardinality({d \in ProjectDocs(response.project) :
                                  \E a \in annotations : a.document = d.id /\ a.user = u})

\* Three documents, two annotated by A alone, private project, requested by A:
\* total 3, remaining 1, user {A: 2}.
C2_Witness ==
    /\ response.op = "statistics"
    /\ ~collab[response.project]
    /\ response.include = {}
    /\ response.body["total"] = 3
    /\ response.body["remaining"] = 1
    /\ response.user = "A"
    /\ response.body["user"] = [u \in {"A"} |-> 2]

\* C8: with a non-empty include the keys of the response are exactly the keys
\* asked for, with an empty include all five keys are returned, and the
\* progress computation is not run when none of total, remaining, user is
\* asked for.
C8_KeysAsRequested ==
    response.op = "statistics" =>
        /\ response.include # {} => DOMAIN response.body = response.include
        /\ response.include = {} => DOMAIN response.body = StatKeys
        /\ (response.include # {}
            /\ response.include \cap {"total", "remaining", "user"} = {})
              => ~response.progressRan

\* The project that owns a document.
ProjectOf(doc_id) == (CHOOSE d \in documents : d.id = doc_id).project

\* The annotations of one scope of a project: those of the document in a
\* collaborative project, those of the document by one user otherwise.
ScopeOf(project, doc_id, user) ==
    {a \in annotations :
        a.document = doc_id /\ (collab[project] \/ a.user = user)}

\* C3: in a single-class project every scope (the document when the project is
\* collaborative, the document and user when it is not) holds at most one
\* annotation, in every state reached by create and delete requests handled
\* one at a time.
C3_AtMostOnePerScope ==
    \A p \in Projects : single[p] =>
        \A d \in ProjectDocs(p), u \in Users :
            Cardinality(ScopeOf(p, d.id, u)) <= 1

\* C4: a create addressed to a single-class project for a scope that holds an
\* annotation is answered 400 and leaves the annotations as they were; any
\* other create (an empty scope, such as a user's first annotation of a
\* document in a private project whoever else annotated it, or a project that
\* is not single-class) is not rejected and adds one annotation of the
\* requester to the document.
C4_GuardRejectsExactlyDuplicates ==
    [][response'.op = "create" /\ (response' # response \/ annotations' # annotations) =>
          LET p == response'.project
              occupied == single[p] /\ ScopeOf(p, response'.doc, response'.user) # {}
          IN  /\ occupied => response'.status = 400 /\ annotations' = annotations
              /\ ~occupied =>
                    /\ response'.status = 201
                    /\ \E a \in annotations' \ annotations :
                          /\ annotations' = annotations \cup {a}
                          /\ a.document = response'.doc
                          /\ a.user = response'.user]_vars

\* A private single-class project where both users have annotated one document
\* and a further create by one of them has just been rejected.
C4_Witness ==
    /\ response.op = "create"
    /\ response.status = 400
    /\ single[response.project]
    /\ ~collab[response.project]
    /\ ProjectOf(response.doc) = response.project
    /\ \A u \in Users : \E a \in annotations : a.document = response.doc /\ a.user = u

\* C9: an annotation is changed or deleted through AnnotationDetail only by
\* its author when the project that owns its document is not collaborative,
\* and only by a member of that project when it is.
C9_OnlyAuthorOrMember ==
    [][response'.op \in {"update", "destroy"} =>
          \A a \in annotations \ annotations' :
              LET p == ProjectOf(a.document)
              IN  IF collab[p] THEN response'.user \in Members[p]
                               ELSE response'.user = a.user]_vars

\* C5: the guard and the insert are not one atomic step: a create that passed
\* the guard is answered 201 and inserts its annotation whatever the scope
\* holds by then, so two interleaved creates for one scope of a single-class
\* project both pass the guard and both insert.
C5_InsertAfterCheckIsUnconditional ==
    [][\A w \in Workers :
          (creates[w].pc = "checked" /\ creates'[w].pc = "idle") =>
              /\ response'.op = "create" /\ response'.status = 201
              /\ \E a \in annotations' \ annotations :
                    a.document = creates[w].doc /\ a.user = creates[w].user]_vars

\* Every project is single-class with the same collaborative flag, so every
\* create met the same guard whatever project its URL named; the create just
\* answered 201 addressed the project that owns the document, and its scope
\* holds two annotations.
C5_Witness ==
    /\ \A p \in Projects : single[p] /\ collab[p] = collab["p1"]
    /\ response.op = "create"
    /\ response.status = 201
    /\ ProjectOf(response.doc) = response.project
    /\ Cardinality(ScopeOf(response.project, response.doc, response.user)) = 2

\* C6: an import is all-or-nothing: the documents and annotations change only
\* in the step that ends an import whose every record was read and well-formed,
\* which adds the whole batch and is answered 201; an import that meets a
\* malformed record or is aborted leaves them as they were.
C6_ImportAllOrNothing ==
    [][(documents' # documents \/ annotations' # annotations) =>
          /\ upload.pc = "saving"
          /\ upload.pos = Len(upload.batch)
          /\ \A i \in 1..Len(upload.batch) : upload.batch[i] # "bad"
          /\ upload'.pc = "idle"
          /\ response'.op = "import" /\ response'.status = 201
          /\ Cardinality(documents') = Cardinality(documents) + Len(upload.batch)]_vars

\* An import failed on a malformed record after it had saved a well-formed
\* one, and no document exists.
C6_Witness ==
    /\ response.op = "import"
    /\ response.error = "parse"
    /\ response.saved >= 1
    /\ documents = {}
    /\ annotations = {}

\* C7: on both import paths a request whose format token is outside the six
\* formats is answered with the invalid-format error before any read of the
\* uploaded or remote input.
C7_UnknownFormatFailsBeforeAnyRead ==
    (response.op = "upload" /\ response.format \notin Formats
        /\ response.error # "missing") =>
        /\ response.error = "format"
        /\ response.reads = 0

\* No two labels of a project share a name or a shortkey.
LabelsUnique ==
    \A l1 \in labels, l2 \in labels :
        (l1.project = l2.project /\ (l1.name = l2.name \/ l1.shortkey = l2.shortkey))
            => l1 = l2

C11_LabelUploadAllOrNothing ==
    /\ [](\A w \in Workers :
            labelTx[w].pc = "uploading" => labelTx[w].staged \cap labels = {})
    /\ [][\A w \in Workers :
            (labelTx[w].pc = "uploading" /\ labelTx'[w].pc = "idle") =>
                /\ response'.op = "labels"
                /\ response'.saved = labelTx[w].staged
                /\ response'.error \in {"ValidationError", "IntegrityError"}
                      => response'.status = 400
                /\ IF response'.status = 201
                   THEN /\ response'.error = "none"
                        /\ labels' = labels \cup labelTx[w].staged
                   ELSE /\ labels' = labels
                        /\ labelTx[w].staged \cap labels' = {}]_vars

\* An upload saved a label in its loop, then met a uniqueness violation and
\* was answered 400, and the label saved earlier is not in the table.
C11_Witness ==
    /\ response.op = "labels"
    /\ response.status = 400
    /\ response.error = "IntegrityError"
    /\ response.saved # {}
    /\ response.saved \cap labels = {}

====
